---- MODULE Spec2Model ----
(***************************************************************************)
(* Link shortener (app/main.py): the link table, the Redis redirect cache  *)
(* and the request handlers, each handler split at its database and cache  *)
(* calls so that requests of several workers interleave.                   *)
(*                                                                         *)
(* Time is counted in ticks, TicksPerSec ticks to the second, so that the  *)
(* truncation of int(total_seconds()) in links_redirect is visible.        *)
(***************************************************************************)
EXTENDS Integers, FiniteSets, Sequences, TLC

\* ---------------------------------------------------------------- bounds
\* The clock stops at MaxTime; a run admits MaxOps requests (one more when
\* every request names the same id).
MaxTime == 2
MaxOps == 2

\* Ticks of the clock per second.
TicksPerSec == 2

\* ------------------------------------------------------------ input sets
Procs == {1, 2}
Users == {"u1", "u2"}
Ids == {"a", "b"}
Urls == {"x", "y"}
None == "None"
NoTime == 0 - 1
BadToken == "Bearer ababab"
NonBearer == "InvalidFormatToken"
Headers == Users \cup {None, NonBearer, BadToken}
\* The search terms of links_search: none, a character every URL has, a
\* character one URL has, and the wildcard of LIKE.
Terms == {<< >>, <<"h">>, <<"x">>, <<"%">>}
ExpireTimes == {1, 3}

\* now      the clock, in ticks
\* store    the rows of table link
\* cache    the Redis keys link:<id>
\* procs    the requests in flight, one per worker: where the handler stands
\*          and its local variables
\* resp     the response of the step just taken
\* ops      the requests the run still admits
\* updated  history: the ids a links_update has committed a URL for, with no
\*          links_redirect of the id begun since
\* deleted  history: the ids a links_delete has removed the row of, with no
\*          links_shorten having created the id again
\* served   history: per id, the 301 responses given since the id was created
\* origin   history: per id, the expire_at of the link whose URL the cache
\*          entry of the id was written from
VARIABLES now, store, cache, procs, resp, ops, updated, deleted, served,
          origin

vars == <<now, store, cache, procs, resp, ops, updated, deleted, served, origin>>

\* --------------------------------------------------------------- helpers
\* The response of the step just taken, when that step ended a request: the
\* handler (op), the id the request named (for links_shorten its alias), the
\* status code, the detail or body text, and the links of the body.
NoResp == [proc |-> 0, op |-> None, link_id |-> None, code |-> 0, text |-> None,
           links |-> {}]

Response(op, link_id, code, text, links) ==
    [proc |-> 0, op |-> op, link_id |-> link_id, code |-> code, text |-> text,
     links |-> links]

Idle == [pc |-> "idle", link_id |-> None, url |-> None, expire_at |-> NoTime,
         original_url |-> None]

\* Mutant: a Bearer token that does not verify is taken for no credential.
get_user_id_lenient(header) ==
    IF header \in Users THEN [ok |-> TRUE, user_id |-> header]
    ELSE [ok |-> TRUE, user_id |-> None]

\* get_user_id: no header (or a non-Bearer one) is no identity, a Bearer
\* token that does not verify raises 401, a valid one yields its subject.
get_user_id(header) ==
    IF header = None \/ header = NonBearer THEN [ok |-> TRUE, user_id |-> None]
    ELSE IF header = BadToken THEN [ok |-> FALSE, user_id |-> None]
    ELSE [ok |-> TRUE, user_id |-> header]

\* get_user_id_strict: additionally 401 when there is no identity.
get_user_id_strict(header) ==
    IF get_user_id(header).ok /\ get_user_id(header).user_id # None
    THEN [ok |-> TRUE, user_id |-> get_user_id(header).user_id]
    ELSE [ok |-> FALSE, user_id |-> None]

\* Link(...): a new row with the column defaults of app/sql.py.
Link(id, user_id, url, expire_at, t) ==
    [id |-> id, user_id |-> user_id, url |-> url, access_count |-> 0,
     last_access_at |-> NoTime, created_at |-> t, updated_at |-> t,
     expire_at |-> expire_at]

\* Mutant: uniqueness per owner instead of the primary key on id alone.
InsertConflictPerOwner(st, link) ==
    \E l \in st : l.id = link.id /\ l.user_id = link.user_id

\* Mutant: no uniqueness constraint on id.
InsertConflictOff(st, link) == FALSE

\* INSERT under the primary key of link.id: IntegrityError on a duplicate.
InsertConflict(st, link) == \E l \in st : l.id = link.id

Insert(st, link) == st \cup {link}

\* Mutant: the lookup by id alone, without the expiry filter.
GetResolvableAnyAge(st, link_id, t) == {l \in st : l.id = link_id}

\* db.query(Link).filter(Link.id == link_id, Link.expire_at > now)
GetResolvable(st, link_id, t) ==
    {l \in st : l.id = link_id /\ l.expire_at > t}

\* Mutant: the lookup by id alone, without the owner filter.
GetOwnedByAnyone(st, link_id, user_id) == {l \in st : l.id = link_id}

\* db.query(Link).filter(Link.id == link_id, Link.user_id == user_id)
GetOwned(st, link_id, user_id) ==
    {l \in st : l.id = link_id /\ l.user_id = user_id}

\* db.query(Link).filter(Link.user_id == user_id)
GetByUser(st, user_id) == {l \in st : l.user_id = user_id}

\* The characters of a URL of Urls: "x" is read as hx, "y" as hy.
Chars(url) == <<"h", url>>

\* text LIKE pattern of SQL: % matches any run of characters, _ any single
\* one, every other character itself.
RECURSIVE Like(_, _)
Like(pattern, txt) ==
    IF pattern = << >> THEN txt = << >>
    ELSE IF Head(pattern) = "%"
    THEN Like(Tail(pattern), txt) \/ (txt # << >> /\ Like(pattern, Tail(txt)))
    ELSE /\ txt # << >>
         /\ Head(pattern) \in {"_", Head(txt)}
         /\ Like(Tail(pattern), Tail(txt))

\* Link.url.contains(other): url LIKE '%' || other || '%', the characters of
\* other not escaped.
Contains(url, other) == Like(<<"%">> \o other \o <<"%">>, Chars(url))

\* db.query(Link).filter(Link.user_id == user_id, Link.url.contains(term))
SearchByUser(st, user_id, original_url) ==
    {l \in st : l.user_id = user_id /\ Contains(l.url, original_url)}

\* int(x) of Python truncates towards zero.
TruncDiv(a, b) == IF a >= 0 THEN a \div b ELSE 0 - ((0 - a) \div b)

\* Mutant: the remaining seconds rounded up instead of truncated.
ExpireSecsCeil(expire_at, t) ==
    TruncDiv(expire_at - t + TicksPerSec - 1, TicksPerSec)

\* int((link.expire_at - datetime.now()).total_seconds())
ExpireSecs(expire_at, t) == TruncDiv(expire_at - t, TicksPerSec)

\* Mutant: an entry that outlives its TTL.
CacheGetForever(c, link_id, t) == c[link_id].url

\* redis.get: an entry is retrievable until its expiry instant.
CacheGet(c, link_id, t) ==
    IF c[link_id].url # None /\ t < c[link_id].exp THEN c[link_id].url ELSE None

NoEntry == [url |-> None, exp |-> NoTime]

\* redis.setex(key, seconds, value); seconds <= 0 is a ResponseError.
CacheSetex(c, link_id, secs, url, t) ==
    [c EXCEPT ![link_id] = [url |-> url, exp |-> t + secs * TicksPerSec]]

\* redis.delete(key)
CacheDelete(c, link_id) == [c EXCEPT ![link_id] = NoEntry]

\* Mutant: the counter written from a value read earlier (a new link's 0)
\* instead of incremented in the UPDATE.
RecordAccessOverwrite(st, link_id, t) ==
    {IF l.id = link_id
     THEN [l EXCEPT !.access_count = 1, !.last_access_at = t]
     ELSE l : l \in st}

\* Mutant: the statistics written as an upsert, which puts back a row that
\* is gone.
RecordAccessUpsert(st, link_id, t) ==
    IF \E l \in st : l.id = link_id
    THEN {IF l.id = link_id
          THEN [l EXCEPT !.access_count = l.access_count + 1, !.last_access_at = t]
          ELSE l : l \in st}
    ELSE st \cup {[id |-> link_id, user_id |-> None, url |-> None,
                   access_count |-> 1, last_access_at |-> t, created_at |-> t,
                   updated_at |-> t, expire_at |-> NoTime]}

\* UPDATE link SET access_count = access_count + 1, last_access_at = now
\* WHERE id = link_id
RecordAccess(st, link_id, t) ==
    {IF l.id = link_id
     THEN [l EXCEPT !.access_count = l.access_count + 1, !.last_access_at = t]
     ELSE l : l \in st}

\* Mutant: the UPDATE writes every column, the counter from a new link's 0.
UpdateRowAllColumns(st, link_id, url, t) ==
    {IF l.id = link_id
     THEN [l EXCEPT !.url = url, !.updated_at = t, !.access_count = 0]
     ELSE l : l \in st}

\* UPDATE link SET url = ..., updated_at = ... WHERE id = link_id
UpdateRow(st, link_id, url, t) ==
    {IF l.id = link_id
     THEN [l EXCEPT !.url = url, !.updated_at = t]
     ELSE l : l \in st}

\* Mutant: the DELETE never committed.
DeleteRowUncommitted(st, link_id) == st

\* DELETE FROM link WHERE id = link_id
DeleteRow(st, link_id) == {l \in st : l.id # link_id}

Finish(p, r) ==
    /\ procs' = [procs EXCEPT ![p] = Idle]
    /\ resp' = [r EXCEPT !.proc = p]

\* A request is taken by the first free worker; ops counts the requests the
\* run still admits.
Begin(p) ==
    /\ procs[p].pc = "idle"
    /\ \A q \in Procs : q < p => procs[q].pc # "idle"
    /\ ops > 0
    /\ ops' = ops - 1

\* ------------------------------------------------------------------ Init
Init ==
    /\ now = 0
    /\ store = {}
    /\ cache = [i \in Ids |-> NoEntry]
    /\ procs = [p \in Procs |-> Idle]
    /\ resp = NoResp
    /\ ops = MaxOps
    /\ updated = {}
    /\ deleted = {}
    /\ served = [i \in Ids |-> 0]
    /\ origin = [i \in Ids |-> NoTime]

\* The clock advances between any two steps.
Tick ==
    /\ now < MaxTime
    /\ now' = now + 1
    /\ resp' = NoResp
    /\ UNCHANGED <<store, cache, procs, ops, updated, deleted, served, origin>>

\* -------------------------------------------------------- links_shorten
\* Lines 129-151. The id is the alias or, by the column default, a code
\* drawn by generate_short_code when the row is flushed.
links_shorten(p, header, url, expire_at, alias, code) ==
    /\ Begin(p)
    /\ LET id == IF alias # None THEN alias ELSE code
           link == Link(id, get_user_id(header).user_id, url, expire_at, now)
       IN IF ~get_user_id(header).ok
          THEN /\ Finish(p, Response("shorten", alias, 401, "Access token malformed", {}))
               /\ UNCHANGED <<store, updated, deleted, served, origin>>
          ELSE IF expire_at < now
          THEN /\ Finish(p, Response("shorten", alias, 400, "expire_at must be in the future", {}))
               /\ UNCHANGED <<store, updated, deleted, served, origin>>
          ELSE IF InsertConflict(store, link)
          THEN /\ Finish(p, Response("shorten", alias, 409, "Alias already exists", {}))
               /\ UNCHANGED <<store, updated, deleted, served, origin>>
          ELSE /\ store' = Insert(store, link)
               /\ Finish(p, Response("shorten", alias, 200, id, {}))
               /\ updated' = updated \ {id}
               /\ deleted' = deleted \ {id}
               /\ served' = [served EXCEPT ![id] = 0]
    /\ UNCHANGED <<now, cache, origin>>

\* ------------------------------------------------------- links_redirect
\* Lines 207-211: the cache lookup.
links_redirect_get(p, link_id) ==
    /\ Begin(p)
    /\ procs' = [procs EXCEPT ![p] =
          IF CacheGet(cache, link_id, now) # None
          THEN [Idle EXCEPT !.pc = "redirect_stat", !.link_id = link_id,
                            !.original_url = CacheGet(cache, link_id, now)]
          ELSE [Idle EXCEPT !.pc = "redirect_query", !.link_id = link_id]]
    /\ updated' = updated \ {link_id}
    /\ resp' = NoResp
    /\ UNCHANGED <<now, store, cache, deleted, served, origin>>

\* Lines 213-218: the store lookup of a resolvable link.
links_redirect_query(p) ==
    /\ procs[p].pc = "redirect_query"
    /\ IF GetResolvable(store, procs[p].link_id, now) = {}
       THEN Finish(p, Response("redirect", procs[p].link_id, 404, "Link not found", {}))
       ELSE \E link \in GetResolvable(store, procs[p].link_id, now) :
              /\ procs' = [procs EXCEPT ![p] =
                     [@ EXCEPT !.pc = "redirect_setex",
                               !.original_url = link.url,
                               !.expire_at = link.expire_at]]
              /\ resp' = NoResp
    /\ UNCHANGED <<now, store, cache, ops, updated, deleted, served, origin>>

\* Lines 220-223: the TTL and the cache write; Redis answers a TTL <= 0 with
\* an error, which ends the request with a 500.
links_redirect_setex(p) ==
    /\ procs[p].pc = "redirect_setex"
    /\ LET expire_secs == ExpireSecs(procs[p].expire_at, now)
       IN IF expire_secs <= 0
          THEN /\ Finish(p, Response("redirect", procs[p].link_id, 500, "Internal Server Error", {}))
               /\ UNCHANGED <<cache, origin>>
          ELSE /\ cache' = CacheSetex(cache, procs[p].link_id, expire_secs,
                                      procs[p].original_url, now)
               /\ origin' = [origin EXCEPT ![procs[p].link_id] = procs[p].expire_at]
               /\ procs' = [procs EXCEPT ![p] = [@ EXCEPT !.pc = "redirect_stat"]]
               /\ resp' = NoResp
    /\ UNCHANGED <<now, store, ops, updated, deleted, served>>

\* Lines 225-234: the statistics update and the 301.
links_redirect_stat(p) ==
    /\ procs[p].pc = "redirect_stat"
    /\ store' = RecordAccess(store, procs[p].link_id, now)
    /\ served' = [served EXCEPT ![procs[p].link_id] = @ + 1]
    /\ Finish(p, Response("redirect", procs[p].link_id, 301, procs[p].original_url, {}))
    /\ UNCHANGED <<now, cache, ops, updated, deleted, origin>>

\* Line 209 when redis.get raises (Redis unreachable or timed out): the call
\* is in no try block, so the exception ends the request with a 500.
links_redirect_get_fails(p, link_id) ==
    /\ Begin(p)
    /\ Finish(p, Response("redirect", link_id, 500, "Internal Server Error", {}))
    /\ UNCHANGED <<now, store, cache, updated, deleted, served, origin>>

\* Line 223 when redis.setex raises for the same reason.
links_redirect_setex_fails(p) ==
    /\ procs[p].pc = "redirect_setex"
    /\ Finish(p, Response("redirect", procs[p].link_id, 500, "Internal Server Error", {}))
    /\ UNCHANGED <<now, store, cache, ops, updated, deleted, served, origin>>

\* Lines 226-230 when the UPDATE or its commit raises (database error): the
\* exception ends the request with a 500 and no row is changed.
links_redirect_stat_fails(p) ==
    /\ procs[p].pc = "redirect_stat"
    /\ Finish(p, Response("redirect", procs[p].link_id, 500, "Internal Server Error", {}))
    /\ UNCHANGED <<now, store, cache, ops, updated, deleted, served, origin>>

\* ----------------------------------------------------------- links_list
\* Lines 180-185.
links_list(p, header) ==
    /\ Begin(p)
    /\ IF ~get_user_id_strict(header).ok
       THEN Finish(p, Response("list", None, 401, "Unauthorized", {}))
       ELSE Finish(p, Response("list", None, 200, None,
                               GetByUser(store, get_user_id_strict(header).user_id)))
    /\ UNCHANGED <<now, store, cache, updated, deleted, served, origin>>

\* --------------------------------------------------------- links_search
\* Lines 192-202. The dependency get_user_id_strict runs before the body.
links_search(p, header, original_url) ==
    /\ Begin(p)
    /\ IF ~get_user_id_strict(header).ok
       THEN Finish(p, Response("search", None, 401, "Unauthorized", {}))
       ELSE IF original_url = << >>
       THEN Finish(p, Response("search", None, 400,
                               "original_url query parameter is required", {}))
       ELSE Finish(p, Response("search", None, 200, None,
                               SearchByUser(store, get_user_id_strict(header).user_id,
                                            original_url)))
    /\ UNCHANGED <<now, store, cache, updated, deleted, served, origin>>

\* ---------------------------------------------------------- links_stats
\* Mutant: reading the statistics counts as an access.
links_stats_counting(p, header, link_id) ==
    /\ Begin(p)
    /\ Finish(p, Response("stats", link_id, 200, link_id, {}))
    /\ store' = RecordAccess(store, link_id, now)
    /\ UNCHANGED <<now, cache, updated, deleted, served, origin>>

\* Lines 237-247.
links_stats(p, header, link_id) ==
    /\ Begin(p)
    /\ IF ~get_user_id_strict(header).ok
       THEN Finish(p, Response("stats", link_id, 401, "Unauthorized", {}))
       ELSE IF GetOwned(store, link_id, get_user_id_strict(header).user_id) = {}
       THEN Finish(p, Response("stats", link_id, 404, "Link not found", {}))
       ELSE \E link \in GetOwned(store, link_id, get_user_id_strict(header).user_id) :
              Finish(p, Response("stats", link_id, 200, link.id, {link}))
    /\ UNCHANGED <<now, store, cache, updated, deleted, served, origin>>

\* --------------------------------------------------------- links_update
\* Lines 257-262: the owner-scoped lookup.
links_update_query(p, header, link_id, url) ==
    /\ Begin(p)
    /\ IF ~get_user_id_strict(header).ok
       THEN Finish(p, Response("update", link_id, 401, "Unauthorized", {}))
       ELSE IF GetOwned(store, link_id, get_user_id_strict(header).user_id) = {}
       THEN Finish(p, Response("update", link_id, 404, "Link not found", {}))
       ELSE /\ procs' = [procs EXCEPT ![p] =
                   [Idle EXCEPT !.pc = "update_commit", !.link_id = link_id,
                                !.url = url]]
            /\ resp' = NoResp
    /\ UNCHANGED <<now, store, cache, updated, deleted, served, origin>>

\* Lines 264-269: the UPDATE by primary key; a row that is gone by then is a
\* StaleDataError of the ORM, which ends the request with a 500.
links_update_commit(p) ==
    /\ procs[p].pc = "update_commit"
    /\ IF \E l \in store : l.id = procs[p].link_id
       THEN /\ store' = UpdateRow(store, procs[p].link_id, procs[p].url, now)
            /\ updated' = updated \cup {procs[p].link_id}
            /\ Finish(p, Response("update", procs[p].link_id, 204, None, {}))
       ELSE /\ Finish(p, Response("update", procs[p].link_id, 500, "Internal Server Error", {}))
            /\ UNCHANGED <<store, updated>>
    /\ UNCHANGED <<now, cache, ops, deleted, served, origin>>

\* --------------------------------------------------------- links_delete
\* Lines 274-282: the owner-scoped lookup.
links_delete_query(p, header, link_id) ==
    /\ Begin(p)
    /\ IF ~get_user_id_strict(header).ok
       THEN Finish(p, Response("delete", link_id, 401, "Unauthorized", {}))
       ELSE IF GetOwned(store, link_id, get_user_id_strict(header).user_id) = {}
       THEN Finish(p, Response("delete", link_id, 404, "Link not found", {}))
       ELSE /\ procs' = [procs EXCEPT ![p] =
                   [Idle EXCEPT !.pc = "delete_commit", !.link_id = link_id]]
            /\ resp' = NoResp
    /\ UNCHANGED <<now, store, cache, updated, deleted, served, origin>>

\* Lines 284-285: the DELETE by primary key.
links_delete_commit(p) ==
    /\ procs[p].pc = "delete_commit"
    /\ store' = DeleteRow(store, procs[p].link_id)
    /\ procs' = [procs EXCEPT ![p] = [@ EXCEPT !.pc = "delete_cache"]]
    /\ resp' = NoResp
    /\ deleted' = deleted \cup {procs[p].link_id}
    /\ updated' = updated \ {procs[p].link_id}
    /\ UNCHANGED <<now, cache, ops, served, origin>>

\* Lines 287-291: the cache invalidation and the 204.
links_delete_cache(p) ==
    /\ procs[p].pc = "delete_cache"
    /\ cache' = CacheDelete(cache, procs[p].link_id)
    /\ origin' = [origin EXCEPT ![procs[p].link_id] = NoTime]
    /\ Finish(p, Response("delete", procs[p].link_id, 204, None, {}))
    /\ UNCHANGED <<now, store, ops, updated, deleted, served>>

\* ------------------------------------------------------------------ Next
\* The requests that name the ids of I. generate_short_code draws a code only
\* for a request without alias.
NextOn(I) ==
    \/ Tick
    \/ \E p \in Procs, h \in Headers, u \in Urls, e \in ExpireTimes,
          a \in I \cup {None} :
             \E c \in (IF a = None THEN I ELSE {a}) :
                links_shorten(p, h, u, e, a, c)
    \/ \E p \in Procs, i \in I : links_redirect_get(p, i)
    \/ \E p \in Procs : links_redirect_query(p)
    \/ \E p \in Procs : links_redirect_setex(p)
    \/ \E p \in Procs : links_redirect_stat(p)
    \/ \E p \in Procs, i \in I : links_redirect_get_fails(p, i)
    \/ \E p \in Procs : links_redirect_setex_fails(p)
    \/ \E p \in Procs : links_redirect_stat_fails(p)
    \/ \E p \in Procs, h \in Headers : links_list(p, h)
    \/ \E p \in Procs, h \in Headers, t \in Terms : links_search(p, h, t)
    \/ \E p \in Procs, h \in Headers, i \in I : links_stats(p, h, i)
    \/ \E p \in Procs, h \in Headers, i \in I, u \in Urls :
          links_update_query(p, h, i, u)
    \/ \E p \in Procs : links_update_commit(p)
    \/ \E p \in Procs, h \in Headers, i \in I : links_delete_query(p, h, i)
    \/ \E p \in Procs : links_delete_commit(p)
    \/ \E p \in Procs : links_delete_cache(p)

Next == NextOn(Ids)

Spec == Init /\ [][Next]_vars

\* The link "a" exists already: created by u1 at time 0 and either never
\* resolved, or resolved once at time 0, which left its cache entry.
SeedLink == Link("a", "u1", "x", 3, 0)

InitA ==
    /\ now = 0
    /\ procs = [p \in Procs |-> Idle]
    /\ resp = NoResp
    /\ ops = MaxOps + 1
    /\ updated = {}
    /\ deleted = {}
    /\ \/ /\ store = {SeedLink}
          /\ cache = [i \in Ids |-> NoEntry]
          /\ served = [i \in Ids |-> 0]
          /\ origin = [i \in Ids |-> NoTime]
       \/ /\ store = RecordAccess({SeedLink}, "a", 0)
          /\ cache = CacheSetex([i \in Ids |-> NoEntry], "a",
                                ExpireSecs(SeedLink.expire_at, 0), "x", 0)
          /\ served = [i \in Ids |-> IF i = "a" THEN 1 ELSE 0]
          /\ origin = [i \in Ids |-> IF i = "a" THEN SeedLink.expire_at ELSE NoTime]

NextA == NextOn({"a"})

SpecA == InitA /\ [][NextA]_vars

\* ---------------------------------------------------------------- claims
\* The step in which worker p begins a links_redirect of id i.
RedirectBegins(p, i) ==
    /\ procs[p].pc = "idle"
    /\ procs'[p].pc \in {"redirect_query", "redirect_stat"}
    /\ procs'[p].link_id = i

\* The step in which the links_redirect of worker p determines its
\* destination, from the cache or from the store.
RedirectResolves(p) ==
    /\ procs[p].original_url = None
    /\ procs'[p].original_url # None

\* C1: after links_update has committed a new URL for an id, the next
\* links_redirect of that id to begin, when it is served from the cache,
\* returns the URL the store now holds.
C1_NextRedirectReturnsNewUrl ==
    [][\A p \in Procs, i \in Ids :
          (i \in updated /\ RedirectBegins(p, i) /\ procs'[p].pc = "redirect_stat")
          => \E l \in store : l.id = i /\ procs'[p].original_url = l.url]_vars

\* C2: for every link in the store, access_count equals the number of 301
\* responses given for its id since it was created, and a 301 leaves
\* last_access_at at the time of that response.
C2_AccessCountIsServed ==
    /\ \A l \in store : l.access_count = served[l.id]
    /\ (resp.op = "redirect" /\ resp.code = 301)
          => \A l \in store : l.id = resp.link_id => l.last_access_at = now

\* C2 witness: a link was resolved at least twice, the last time just now
\* and while another links_redirect of it is past its cache or store lookup.
C2_Witness ==
    /\ resp.op = "redirect" /\ resp.code = 301
    /\ \E l \in store : l.id = resp.link_id /\ l.access_count >= 2
    /\ \E q \in Procs : procs[q].pc = "redirect_stat" /\ procs[q].link_id = resp.link_id

\* C3: when links_redirect determines a destination for an id, no link of
\* that id in the store has expire_at <= now.
C3_NeverResolvesExpired ==
    [][\A p \in Procs :
          RedirectResolves(p)
          => \A l \in store : l.id = procs'[p].link_id => l.expire_at > now]_vars

\* C4: the cache entry that links_redirect writes expires no later than the
\* expire_at of the link it read: TTL <= expire_at - now.
C4_CacheTtlWithinLifetime ==
    [][\A p \in Procs :
          (procs[p].pc = "redirect_setex" /\ procs'[p].pc = "redirect_stat")
          => /\ cache'[procs[p].link_id].url = procs[p].original_url
             /\ cache'[procs[p].link_id].exp <= procs[p].expire_at]_vars

\* C4 witness: a redirect has just written an entry that expires strictly
\* before the link does (the TTL was truncated to whole seconds).
C4_Witness ==
    \E p \in Procs :
       /\ procs[p].pc = "redirect_stat"
       /\ procs[p].expire_at # NoTime
       /\ cache[procs[p].link_id].url = procs[p].original_url
       /\ cache[procs[p].link_id].exp < procs[p].expire_at
       /\ cache[procs[p].link_id].exp > now

\* C5: a links_shorten that passes authentication and the expire_at check and
\* names as alias the id of an existing link answers 409 and leaves the store
\* and the cache as they were.
C5_AliasConflict ==
    [][(/\ resp'.op = "shorten"
        /\ resp'.link_id # None
        /\ resp'.code \notin {400, 401}
        /\ \E l \in store : l.id = resp'.link_id)
       => /\ resp'.code = 409
          /\ store' = store
          /\ cache' = cache]_vars

\* C5 witness: an alias request was just refused while the link of that id
\* is in the store.
C5_Witness ==
    /\ resp.op = "shorten" /\ resp.code = 409 /\ resp.link_id # None
    /\ \E l \in store : l.id = resp.link_id

\* C6: a links_shorten without alias never answers with the alias conflict.
C6_GeneratedCollisionNotReported ==
    (resp.op = "shorten" /\ resp.code = 409) => resp.link_id # None

\* C7: no two rows of the store share an id, and a links_shorten that answers
\* 200 returns an id that no row had before and one row has now (the alias
\* when one was given).
C7_IdsUnique ==
    [][/\ \A l1, l2 \in store' : l1.id = l2.id => l1 = l2
       /\ (resp'.op = "shorten" /\ resp'.code = 200)
            => /\ ~ \E l \in store : l.id = resp'.text
               /\ \E l \in store' : l.id = resp'.text
               /\ resp'.link_id # None => resp'.text = resp'.link_id]_vars

\* C7 witness: a second link was just created beside an existing one.
C7_Witness ==
    /\ resp.op = "shorten" /\ resp.code = 200
    /\ Cardinality(store) = 2

\* C8: the link a links_shorten has just created is resolvable at that
\* moment: expire_at > now.
C8_NoLinkCreatedExpired ==
    (resp.op = "shorten" /\ resp.code = 200)
       => \A l \in store : l.id = resp.text => l.expire_at > now

\* A links_delete of id i has removed the row and returned, and the id has
\* not been created again.
DeleteReturned(i) ==
    /\ i \in deleted
    /\ \A q \in Procs : ~(procs[q].pc = "delete_cache" /\ procs[q].link_id = i)

\* The step ends a request of worker p on id i that began after the state it
\* starts in: a links_stats, links_update or links_delete answered in its
\* first step, or a links_redirect answered at its store lookup.
AnswersLookup(p, i) ==
    /\ resp'.proc = p
    /\ resp'.link_id = i
    /\ resp'.code # 401
    /\ \/ procs[p].pc = "idle" /\ resp'.op \in {"stats", "update", "delete"}
       \/ procs[p].pc = "redirect_query"

C10_NonOwnerIsNotFound ==
    [][\A p \in Procs, h \in Users, i \in Ids :
          (/\ procs[p].pc = "idle"
           /\ resp'.proc = p
           /\ resp'.link_id = i
           /\ \A l \in store : l.id = i => l.user_id # h
           /\ \/ links_stats(p, h, i)
              \/ \E u \in Urls : links_update_query(p, h, i, u)
              \/ links_delete_query(p, h, i))
          => /\ resp'.code = 404
             /\ resp'.text = "Link not found"
             /\ resp'.links = {}
             /\ procs'[p] = Idle
             /\ store' = store
             /\ cache' = cache]_vars

\* C10 witness: a user was just answered 404 for an anonymous link that is in
\* the store.
C10_Witness ==
    /\ resp.op \in {"stats", "update", "delete"} /\ resp.code = 404
    /\ \E l \in store : l.id = resp.link_id /\ l.user_id = None

\* C11: a links_redirect that has determined its destination answers 301 with
\* that destination, whatever becomes of the statistics update.
C11_StatFailureNotPropagated ==
    [][\A p \in Procs :
          (procs[p].pc = "redirect_stat" /\ resp'.proc = p)
          => /\ resp'.code = 301
             /\ resp'.text = procs[p].original_url]_vars

\* C12: no links_redirect is answered 500 at its cache lookup, nor at a cache
\* write whose TTL is at least one second.
C12_CacheFailureNotSurfaced ==
    [][\A p \in Procs :
          (/\ resp'.proc = p
           /\ resp'.op = "redirect"
           /\ \/ procs[p].pc = "idle"
              \/ /\ procs[p].pc = "redirect_setex"
                 /\ ExpireSecs(procs[p].expire_at, now) >= 1)
          => resp'.code # 500]_vars

\* C13: a links_redirect that is served from the cache returns what the store
\* lookup would return at that moment, so that a run whose cache is emptied
\* gives the same destinations and the same 404s.
C13_CacheIsTransparent ==
    [][\A p \in Procs, i \in Ids :
          (RedirectBegins(p, i) /\ procs'[p].pc = "redirect_stat")
          => \E l \in store : /\ l.id = i
                              /\ l.expire_at > now
                              /\ l.url = procs'[p].original_url]_vars

\* The step is the first of a request of worker p that carries header h and
\* the step answers it.
AnsweredWith(p, h) ==
    /\ procs[p].pc = "idle"
    /\ resp'.proc = p
    /\ \/ /\ resp'.op = "shorten"
          /\ \E u \in Urls, e \in ExpireTimes, c \in Ids :
                links_shorten(p, h, u, e, resp'.link_id, c)
       \/ resp'.op = "list" /\ links_list(p, h)
       \/ resp'.op = "search" /\ \E t \in Terms : links_search(p, h, t)
       \/ resp'.op = "stats" /\ links_stats(p, h, resp'.link_id)
       \/ /\ resp'.op = "update"
          /\ \E u \in Urls : links_update_query(p, h, resp'.link_id, u)
       \/ resp'.op = "delete" /\ links_delete_query(p, h, resp'.link_id)

\* What the answer to a request with header h, a header that carries no valid
\* token, has to be.
AnswerWithout(h) ==
    /\ (h # BadToken /\ resp'.op = "shorten")
          => /\ resp'.code # 401
             /\ resp'.code = 200
                   => /\ store' # store
                      /\ \A l \in store' \ store :
                            l.id = resp'.text /\ l.user_id = None
    /\ (h = BadToken \/ resp'.op # "shorten") => resp'.code = 401
    /\ resp'.code = 401 => (store' = store /\ cache' = cache)

\* C14: without a Bearer header links_shorten is not refused for the
\* credential and the link it creates has no owner, while links_list,
\* links_search, links_stats, links_update and links_delete answer 401; with a
\* Bearer token that does not verify every one of them answers 401; and a 401
\* leaves the store and the cache as they were.
C14_AbsentVersusInvalidCredential ==
    [][\A h \in {None, NonBearer, BadToken} :
          \/ resp'.proc = 0
          \/ AnswerWithout(h)
          \/ ~ AnsweredWith(resp'.proc, h)]_vars

\* C14 witness: an anonymous link is in the store and a request was just
\* refused with 401.
C14_Witness ==
    /\ resp.code = 401
    /\ resp.op \in {"list", "search", "stats", "update", "delete"}
    /\ \E l \in store : l.user_id = None

\* C15: the store lookup of a links_redirect that missed the cache, when no
\* link of the id is in the store with now < expire_at, answers 404 and
\* changes neither the cache nor any row.
C15_UnresolvableIsNotFound ==
    [][\A p \in Procs :
          (/\ procs[p].pc = "redirect_query"
           /\ procs'[p] # procs[p]
           /\ ~ \E l \in store : l.id = procs[p].link_id /\ now < l.expire_at)
          => /\ resp'.proc = p
             /\ resp'.op = "redirect"
             /\ resp'.code = 404
             /\ store' = store
             /\ cache' = cache]_vars

\* C15 witness: a links_redirect was just answered 404 for a link that is in
\* the store and has expired.
C15_Witness ==
    /\ resp.op = "redirect" /\ resp.code = 404
    /\ \E l \in store : l.id = resp.link_id /\ l.expire_at <= now

\* C16: every cache entry expires no later than the expire_at of the link it
\* was written from, whatever links_update or links_delete did in between; a
\* links_redirect is served from the entry only before that instant, and
\* once the TTL has elapsed it goes to the store.
C16_StalenessBounded ==
    [][\A p \in Procs, i \in Ids :
          /\ cache[i].url # None => cache[i].exp <= origin[i]
          /\ RedirectBegins(p, i)
                => /\ procs'[p].pc = "redirect_stat"
                        => (now < cache[i].exp /\ now < origin[i])
                   /\ now >= cache[i].exp
                        => procs'[p].pc = "redirect_query"]_vars

\* C16 witness: a links_redirect has just been served from an entry written
\* after the links_delete of the id had returned.
C16_Witness ==
    \E p \in Procs :
       /\ procs[p].pc = "redirect_stat"
       /\ procs[p].expire_at = NoTime
       /\ DeleteReturned(procs[p].link_id)
       /\ origin[procs[p].link_id] # NoTime
       /\ ~ \E l \in store : l.id = procs[p].link_id

\* C17: when the row of the id is gone by the time a links_redirect records
\* the access and the UPDATE does not fail, the request answers 301 with the
\* destination it had determined and the store is left as it was.
C17_StatOnMissingRowIsNoOp ==
    [][\A p \in Procs :
          (/\ procs[p].pc = "redirect_stat"
           /\ resp'.proc = p
           /\ resp'.code # 500
           /\ ~ \E l \in store : l.id = procs[p].link_id)
          => /\ resp'.op = "redirect"
             /\ resp'.code = 301
             /\ resp'.text = procs[p].original_url
             /\ store' = store]_vars

\* C17 witness: a links_redirect that had read the row from the store was
\* just answered 301 although the row of its id has been deleted.
C17_Witness ==
    /\ resp.op = "redirect" /\ resp.code = 301
    /\ resp.link_id \in deleted
    /\ ~ \E l \in store : l.id = resp.link_id

\* C18: links_list, links_search and links_stats change neither the store nor
\* the cache and answer with rows of the store; the cache changes only when a
\* links_redirect writes the entry of its id or a links_delete removes it.
C18_ReadsArePure ==
    [][/\ resp'.op \in {"list", "search", "stats"}
            => /\ store' = store
               /\ cache' = cache
               /\ resp'.links \subseteq store
       /\ cache' # cache
            => \E p \in Procs :
                  \/ /\ procs[p].pc = "redirect_setex"
                     /\ cache' = [cache EXCEPT ![procs[p].link_id] = cache'[procs[p].link_id]]
                     /\ cache'[procs[p].link_id].url = procs[p].original_url
                  \/ /\ procs[p].pc = "delete_cache"
                     /\ cache' = [cache EXCEPT ![procs[p].link_id] = NoEntry]]_vars

\* C18 witness: a read just returned a link whose id has a cache entry.
C18_Witness ==
    /\ resp.op \in {"list", "search", "stats"} /\ resp.code = 200
    /\ \E l \in resp.links : cache[l.id].url # None /\ l.access_count >= 1

\* The characters of term occur in txt, one after the other.
IsSubstring(term, txt) ==
    \E k \in 0 .. (Len(txt) - Len(term)) :
       \A j \in 1 .. Len(term) : txt[k + j] = term[j]

\* C19: links_list and links_search answer only with links of the caller,
\* links_search only with links whose URL contains the term, and no step of a
\* links_update or links_delete changes or removes a link that has no owner.
C19_ScopedToOwner ==
    [][/\ \A p \in Procs, h \in Users :
             (procs[p].pc = "idle" /\ resp'.proc = p /\ resp'.code = 200)
             => /\ (resp'.op = "list" /\ links_list(p, h))
                     => \A l \in resp'.links : l.user_id = h
                /\ \A t \in Terms :
                      (resp'.op = "search" /\ links_search(p, h, t))
                      => \A l \in resp'.links :
                            l.user_id = h /\ IsSubstring(t, Chars(l.url))
       /\ \A p \in Procs :
             (procs[p].pc \in {"update_commit", "delete_commit"}
                /\ procs'[p] # procs[p])
             => \A l \in store : l.user_id = None => l \in store']_vars

\* C19, its last part alone: no step of a links_update or links_delete changes
\* or removes a link that has no owner.
C19_AnonymousUntouched ==
    [][\A p \in Procs :
          (procs[p].pc \in {"update_commit", "delete_commit"}
             /\ procs'[p] # procs[p])
          => \A l \in store : l.user_id = None => l \in store']_vars

\* C20: the TTL a links_redirect hands to the cache write is at least one
\* second, for every link its store lookup returned.
C20_TtlAtLeastOne ==
    [][\A p \in Procs :
          (procs[p].pc = "redirect_setex" /\ procs'[p] # procs[p])
          => ExpireSecs(procs[p].expire_at, now) >= 1]_vars

\* C21: access_count is never negative, is 0 in the row a links_shorten
\* creates, never decreases from one state to the next in a row that stays,
\* and is left as it is by the UPDATE of links_update.
C21_AccessCountMonotonic ==
    [][/\ \A l \in store' : l.access_count >= 0
       /\ \A l \in store' :
             (~ \E k \in store : k.id = l.id) => l.access_count = 0
       /\ \A k \in store, l \in store' :
             k.id = l.id => l.access_count >= k.access_count
       /\ \A p \in Procs :
             (procs[p].pc = "update_commit" /\ procs'[p] # procs[p])
             => \A k \in store, l \in store' :
                   k.id = l.id => l.access_count = k.access_count]_vars

\* C21 witness: a links_update was just committed on a link that has been
\* resolved twice, while a links_redirect of its id is about to count.
C21_Witness ==
    /\ resp.op = "update" /\ resp.code = 204
    /\ \E l \in store : l.id = resp.link_id /\ l.access_count >= 2
    /\ \E q \in Procs : procs[q].pc = "redirect_stat" /\ procs[q].link_id = resp.link_id

\* Link i is in the store, belongs to user h and has expired.
OwnsExpired(h, i) ==
    \E l \in store : l.id = i /\ l.user_id = h /\ l.expire_at <= now

\* C22: for a link that has expired, links_stats by its owner answers 200
\* with the row, links_update and links_delete by its owner pass their lookup
\* and the UPDATE answers 204, while a links_redirect of the id is not served
\* from the cache and is answered 404 by the store lookup.
C22_OwnerLookupIgnoresExpiry ==
    [][\A p \in Procs, h \in Users, i \in Ids :
          OwnsExpired(h, i)
          => /\ (procs[p].pc = "idle" /\ resp'.op = "stats" /\ links_stats(p, h, i))
                  => /\ resp'.code = 200
                     /\ resp'.links = {l \in store : l.id = i}
             /\ (procs[p].pc = "idle" /\ \E u \in Urls : links_update_query(p, h, i, u))
                  => procs'[p].pc = "update_commit"
             /\ (procs[p].pc = "idle" /\ links_delete_query(p, h, i))
                  => procs'[p].pc = "delete_commit"
             /\ (procs[p].pc = "update_commit" /\ procs[p].link_id = i
                    /\ procs'[p] # procs[p])
                  => resp'.code = 204
             /\ RedirectBegins(p, i) => procs'[p].pc = "redirect_query"
             /\ (procs[p].pc = "redirect_query" /\ procs[p].link_id = i
                    /\ procs'[p] # procs[p])
                  => resp'.code = 404]_vars

====
